---- MODULE Spec2Model ----
(***************************************************************************)
(* Implicit free-list heap allocator (src/src/implicit_free _list.c).      *)
(*                                                                         *)
(* Every call of myAlloc / myFree is one atomic action: the program is     *)
(* single-threaded and a call runs to completion.  Addresses and sizes are *)
(* unsigned machine words of WordBits bits; all pointer and size_t         *)
(* arithmetic is taken modulo 2^WordBits.  mem holds the words of the      *)
(* anonymous mapping (zero-filled by the operating system), indexed by     *)
(* word offset from the mapping's address.  Memory outside the mapping is  *)
(* not the allocator's: an access there faults or touches foreign memory,  *)
(* whose contents are not tracked (a read yields any of ForeignWords).     *)
(* The caller's own stores into the payloads it was given are not          *)
(* modelled; myFree is called with NULL or a header-aligned pointer.       *)
(*                                                                         *)
(* The fixed-block pool (src/src/fixed_block.c) is a second program with   *)
(* its own state (free_list) and its own myAlloc / myFree, modelled as     *)
(* fixed_myAlloc / fixed_myFree and run by PoolSpec.                       *)
(***************************************************************************)
EXTENDS Integers, Sequences, FiniteSets, TLC

\* ------------------------------------------------------------------ bounds
WordBits   == 8      \* width of size_t / of a pointer
HEAP_SIZE  == 56     \* arena capacity in bytes (1 << 20 in the source)
MmapSlot   == 8      \* the mapping is placed at address MmapSlot * ALIGNMENT
MaxRequest == 24     \* largest "ordinary" request size
HugeSpan   == 24     \* requests within HugeSpan of 2^WordBits are tried too
MaxHugeCalls == 1    \* at most this many such requests in one run
BLOCK_COUNT == 6     \* blocks in the fixed-block pool (1024 in the source)
PoolAddr   == 64     \* address of the pool's memory array

\* --------------------------------------------------------------- constants
ALIGNMENT       == 8
HeaderSize      == 8
NULL            == 0
ERR_NONE        == 0
ERR_MMAP_FAILED == -1
ERR_OUT_OF_MEM  == -2
ERR_INVALID_FREE == -3
BLOCK_SIZE      == 64           \* fixed_block.c line 4

TwoW       == 2 ^ WordBits
MAP_FAILED == TwoW - 1          \* (void *) -1
Wrap(x)    == x % TwoW
MmapAddr   == MmapSlot * ALIGNMENT

Addresses == 0 .. (TwoW - 1)
WordIdx   == 0 .. ((HEAP_SIZE \div HeaderSize) - 1)
Idx(a)    == (a - MmapAddr) \div HeaderSize

\* Request sizes tried: small ones and ones near the top of the word range.
Sizes == { n \in 0 .. MaxRequest : n % ALIGNMENT = 0 \/ n = ALIGNMENT \div 2 }
         \cup { n \in (TwoW - HugeSpan) .. (TwoW - 1) :
                   n % ALIGNMENT = 0 \/ n = TwoW - 1 }
\* Pointers handed to myFree: NULL and every header-aligned address from one
\* word below the mapping to one word above it.
Pointers == {NULL} \cup { p \in (MmapAddr - HeaderSize) .. (MmapAddr + HEAP_SIZE + HeaderSize) :
                          p % HeaderSize = 0 }

\* ------------------------------------------------------------------ macros
\* ALIGN(s): (((uintptr_t)(s) + (ALIGNMENT - 1)) & ~(ALIGNMENT - 1))
ALIGN(s) == LET t == Wrap(s + (ALIGNMENT - 1)) IN t - (t % ALIGNMENT)
GET_SIZE(m) == m - (m % 2)
IS_FREE(m) == m % 2
SET_SIZE(m, s) == (s - (s % 2)) + (m % 2)
MARK_ALLOCATED(m) == m - (m % 2)
\* (a MARK_FREE that leaves the word as it is)
MarkFreeNoOp(m) == m
MARK_FREE(m) == (m - (m % 2)) + 1

VARIABLES
  heapStart, heapEnd, heapMax,  \* the three globals
  mem,                          \* word index -> word
  last_error,                   \* static int last_error
  call,                         \* the last call: its name and, for myAlloc, its size
  ret,                          \* what the last call returned (NULL if nothing)
  path,                         \* the return statement the last call left by
  status,                       \* "running" | "crashed" | "hung"
  mmapCalls,                    \* number of mmap requests issued (line 127)
  initRuns,                     \* number of times line 135 reset heapEnd
  hugeCalls,                    \* number of requests above MaxRequest so far
  free_list,                    \* fixed_block.c: slot -> 0 (free) | 1 (used)
  poolRet,                      \* what the pool's last myAlloc returned
  poolLive,                     \* pool pointers returned and not yet freed,
                                \* each with the slot marked when it was returned
  live,                         \* the caller's live allocations: pointer and
                                \* requested size (kept by the callers below
                                \* that free only what they hold)
  returned,                     \* every pointer myAlloc has returned so far
  carved,                       \* every header address a carve has written
  thr,                          \* RaceSpec: per thread, where its myAlloc call
                                \* stands and the call's locals
  overlapped                    \* RaceSpec: the two calls ran at the same time

heapVars == <<heapStart, heapEnd, heapMax, mem, last_error, call, ret, path,
              status, mmapCalls, initRuns, hugeCalls>>
poolVars == <<free_list, poolRet, poolLive>>
vars == <<heapStart, heapEnd, heapMax, mem, last_error, call, ret, path,
          status, mmapCalls, initRuns, hugeCalls, free_list, poolRet, poolLive,
          live, returned, carved, thr, overlapped>>
raceVars == <<thr, overlapped>>
\* what the callers below remember of the calls made so far
callerVars == <<live, returned, carved>>

\* fixed_block.c: the slots of free_list and the address of memory[]
Slots  == 0 .. (BLOCK_COUNT - 1)
memory == PoolAddr

\* RaceSpec: the two threads, and a thread that is not inside a call
Threads == {1, 2}
Idle == [pc |-> "idle", size |-> 0, p |-> NULL, w |-> 0, h |-> NULL,
         ret |-> NULL, path |-> "none"]

\* The arena is mapped once mmap has succeeded.
Mapped(hs) == hs # NULL /\ hs # MAP_FAILED
\* A word at address a lies inside the mapping [hs, hs + HEAP_SIZE).
InArena(a, hs) == Mapped(hs) /\ hs <= a /\ a + HeaderSize <= hs + HEAP_SIZE

\* Outcomes of accessing the words at the addresses in as: inside the mapping
\* the access succeeds; at address 0 it faults; anywhere else it either
\* faults or hits whatever memory is there.
AccessOutcomes(as, hs) ==
  IF \A a \in as : InArena(a, hs) THEN {TRUE}
  ELSE IF NULL \in as THEN {FALSE}
  ELSE {TRUE, FALSE}
\* What a read of foreign memory may yield: a header word of size 0 or
\* ALIGNMENT, free or allocated.
ForeignWords == { w \in Addresses : GET_SIZE(w) \in {0, ALIGNMENT} }
ReadWord(m, a, hs) == IF InArena(a, hs) THEN {m[Idx(a)]} ELSE ForeignWords
\* A store of f(old word) at address a: foreign memory is not tracked.
WriteWord(m, a, hs, w) == IF InArena(a, hs) THEN [m EXCEPT ![Idx(a)] = w] ELSE m

Init ==
  /\ heapStart = NULL
  /\ heapEnd = NULL
  /\ heapMax = NULL
  /\ mem = [i \in WordIdx |-> 0]
  /\ last_error = ERR_NONE
  /\ call = [op |-> "none"]
  /\ ret = NULL
  /\ path = "none"
  /\ status = "running"
  /\ mmapCalls = 0
  /\ initRuns = 0
  /\ hugeCalls = 0
  /\ free_list = [i \in Slots |-> 0]
  /\ poolRet = NULL
  /\ poolLive = {}
  /\ live = {}
  /\ returned = {}
  /\ carved = {}
  /\ thr = [t \in Threads |-> Idle]
  /\ overlapped = FALSE

\* lines 101-112: alloc_error / free_error store the code in last_error
\* (a helper that forgets the store)
ErrorNotStored(code) == ERR_NONE
alloc_error(code) == code
free_error(code) == code

\* ---------------------------------------------------------------- myAlloc
\* (a zero-size test that never fires)
ZeroSizeNever(size) == FALSE
ZeroSize(size) == size = 0                         \* line 117
\* (an initialisation test that only looks for the failure sentinel)
NeedsInitUnlessFailed(hs) == hs # MAP_FAILED
NeedsInit(hs) == hs = NULL                         \* line 125
MmapResults == {MmapAddr, MAP_FAILED}              \* line 127

\* line 144: IS_FREE(h) && GET_SIZE(h) >= alignedSize
Fits(w, alignedSize) == IS_FREE(w) = 1 /\ GET_SIZE(w) >= alignedSize
\* line 151: p += sizeof(struct header) + GET_SIZE(h)
NextBlock(p, w) == Wrap(p + HeaderSize + GET_SIZE(w))

\* lines 139-152: the first-fit scan, as the set of its possible results
\* (one result unless foreign memory is read).  seen is the set of header
\* addresses read so far; memory does not change during the scan, so reading
\* an address a second time means the loop never ends.
RECURSIVE Scan(_, _, _, _, _, _)
Scan(m, hs, p, end, alignedSize, seen) ==
  IF ~(p < end) THEN {[kind |-> "none", p |-> p, w |-> 0, seen |-> seen]}
  ELSE IF p \in seen THEN {[kind |-> "hang", p |-> p, w |-> 0, seen |-> seen]}
  ELSE UNION { IF Fits(w, alignedSize)
               THEN {[kind |-> "found", p |-> p, w |-> w, seen |-> seen \cup {p}]}
               ELSE Scan(m, hs, NextBlock(p, w), end, alignedSize, seen \cup {p})
               : w \in ReadWord(m, p, hs) }

\* line 155: (char *)heapEnd + sizeof(struct header) + alignedSize > heapMax.
\* When the pointer sum overflows the word the behaviour is undefined: the
\* build either compares the wrapped sum or treats the sum as past heapMax.
OutOfSpace(he, alignedSize, hm) ==
  LET sum == he + HeaderSize + alignedSize IN
  IF sum < TwoW THEN {sum > hm} ELSE {Wrap(sum) > hm, TRUE}

\* lines 159-161: the header written by a carve
CarvedHeader(old, alignedSize) == MARK_ALLOCATED(SET_SIZE(old, alignedSize))
\* line 166: heapEnd = (void *)(h + 1) + alignedSize
\* (a carve that leaves heapEnd where it was)
CarvedEndStuck(he, alignedSize) == he
CarvedEnd(he, alignedSize) == Wrap(Wrap(he + HeaderSize) + alignedSize)
\* lines 148, 169: (void *)(h + 1)
Payload(h) == Wrap(h + HeaderSize)

\* lines 138-169, with the arena globals already set to hs, he, hm
AllocInHeap(alignedSize, hs, he, hm) ==
  \E s \in Scan(mem, hs, hs, he, alignedSize, {}) :
  /\ heapStart' = hs
  /\ heapMax' = hm
  /\ IF s.kind = "hang"
     THEN /\ status' = "hung"
          /\ path' = "hang"
          /\ last_error' = ERR_NONE
          /\ heapEnd' = he
          /\ UNCHANGED <<mem, ret>>
     ELSE \E ok \in AccessOutcomes(s.seen, hs) :
       IF ~ok
       THEN /\ status' = "crashed"
            /\ path' = "fault"
            /\ last_error' = ERR_NONE
            /\ heapEnd' = he
            /\ UNCHANGED <<mem, ret>>
       ELSE IF s.kind = "found"
       THEN /\ mem' = WriteWord(mem, s.p, hs, MARK_ALLOCATED(s.w))     \* line 145
            /\ ret' = Payload(s.p)                                  \* line 148
            /\ path' = "reuse"
            /\ last_error' = ERR_NONE
            /\ heapEnd' = he
            /\ UNCHANGED status
       ELSE \E full \in OutOfSpace(he, alignedSize, hm) :
         IF full
         THEN /\ last_error' = alloc_error(ERR_OUT_OF_MEM)          \* line 156
              /\ ret' = NULL
              /\ path' = "oom"
              /\ heapEnd' = he
              /\ UNCHANGED <<mem, status>>
         ELSE \E wok \in AccessOutcomes({he}, hs) :
           IF ~wok
           THEN /\ status' = "crashed"
                /\ path' = "fault"
                /\ last_error' = ERR_NONE
                /\ heapEnd' = he
                /\ UNCHANGED <<mem, ret>>
           ELSE /\ \E old \in ReadWord(mem, he, hs) :
                     mem' = WriteWord(mem, he, hs, CarvedHeader(old, alignedSize))
                /\ heapEnd' = CarvedEnd(he, alignedSize)
                /\ ret' = Payload(he)
                /\ path' = "carve"
                /\ last_error' = ERR_NONE
                /\ UNCHANGED status

myAlloc(size) ==
  /\ status = "running"
  /\ call' = [op |-> "myAlloc", size |-> size]
  /\ IF ZeroSize(size)
     THEN /\ last_error' = alloc_error(ERR_OUT_OF_MEM)              \* line 118
          /\ ret' = NULL
          /\ path' = "zero"
          /\ UNCHANGED <<heapStart, heapEnd, heapMax, mem, status,
                         mmapCalls, initRuns>>
     ELSE IF NeedsInit(heapStart)
     THEN \E m \in MmapResults :
            /\ mmapCalls' = mmapCalls + 1
            /\ IF m = MAP_FAILED
               THEN /\ heapStart' = m                               \* line 127
                    /\ last_error' = alloc_error(ERR_MMAP_FAILED)       \* line 130
                    /\ ret' = NULL
                    /\ path' = "mmapfail"
                    /\ UNCHANGED <<heapEnd, heapMax, mem, status, initRuns>>
               ELSE /\ initRuns' = initRuns + 1
                    /\ AllocInHeap(ALIGN(size), m, m, Wrap(m + HEAP_SIZE))
     ELSE /\ AllocInHeap(ALIGN(size), heapStart, heapEnd, heapMax)
          /\ UNCHANGED <<mmapCalls, initRuns>>

\* ----------------------------------------------------------------- myFree
\* lines 179-180.  heapStart + sizeof(struct header) may overflow the word
\* (heapStart = MAP_FAILED): the build compares the wrapped or the true sum.
\* (the upper bound test off by one: p > heapEnd)
InvalidFreeOffByOne(p, hs, he) == {p < Wrap(hs + HeaderSize) \/ p > he}
InvalidFree(p, hs, he) ==
  LET sum == hs + HeaderSize IN
  IF sum < TwoW THEN {p < sum \/ p >= he}
  ELSE {p < Wrap(sum) \/ p >= he, p < sum \/ p >= he}

\* (a null test that never fires)
IsNullNever(p) == FALSE
IsNull(p) == p = NULL                              \* line 175

myFree(p) ==
  /\ status = "running"
  /\ call' = [op |-> "myFree"]
  /\ ret' = NULL
  /\ UNCHANGED <<heapStart, heapEnd, heapMax, mmapCalls, initRuns>>
  /\ IF IsNull(p)
     THEN /\ path' = "null"                                         \* line 176
          /\ last_error' = ERR_NONE                                 \* line 173
          /\ UNCHANGED <<mem, status>>
     ELSE \E bad \in InvalidFree(p, heapStart, heapEnd) :
       IF bad
       THEN /\ path' = "invalid"                                    \* line 181
            /\ last_error' = free_error(ERR_INVALID_FREE)
            /\ UNCHANGED <<mem, status>>
       ELSE \E ok \in AccessOutcomes({Wrap(p - HeaderSize + TwoW)}, heapStart) :
         IF ~ok
         THEN /\ status' = "crashed"
              /\ path' = "fault"
              /\ last_error' = ERR_NONE
              /\ UNCHANGED mem
         ELSE /\ \E old \in ReadWord(mem, Wrap(p - HeaderSize + TwoW), heapStart) :
                   mem' = WriteWord(mem, Wrap(p - HeaderSize + TwoW), heapStart,
                                    MARK_FREE(old))                  \* line 188
              /\ path' = "freed"
              /\ last_error' = ERR_NONE
              /\ UNCHANGED status

\* The caller: any request size and any pointer, with at most MaxHugeCalls
\* requests above MaxRequest in one run.
Budget(size) ==
  IF size <= MaxRequest THEN UNCHANGED hugeCalls
  ELSE hugeCalls < MaxHugeCalls /\ hugeCalls' = hugeCalls + 1

Alloc == \E size \in Sizes :
           Budget(size) /\ myAlloc(size) /\ UNCHANGED <<poolVars, callerVars, raceVars>>
Free == \E p \in Pointers :
          myFree(p) /\ UNCHANGED <<hugeCalls, poolVars, callerVars, raceVars>>

Next == Alloc \/ Free

Spec == Init /\ [][Next]_vars

\* A caller that only allocates, never requests 0 bytes, never frees and
\* never stops calling.
\* The request sizes it uses: those rounding to one alignment unit, to 0, or
\* to two units short of 2^WordBits.
ExhaustSizes == { n \in Sizes \ {0} :
                    ALIGN(n) \in {ALIGNMENT, 0, TwoW - (ALIGNMENT + ALIGNMENT)} }
AllocForever == \E size \in ExhaustSizes :
                  myAlloc(size) /\ UNCHANGED <<hugeCalls, poolVars, callerVars, raceVars>>

\* A caller that keeps what myAlloc returns and frees only pointers it holds,
\* each once (as main does with its pointer p, lines 192-198).
LiveAlloc == \E size \in Sizes :
  /\ Budget(size) /\ myAlloc(size)
  /\ live' = IF ret' # NULL /\ status' = "running"
             THEN live \cup {[ptr |-> ret', n |-> size]} ELSE live
  /\ UNCHANGED <<poolVars, returned, carved, raceVars>>
LiveFree == \E e \in live :
  /\ myFree(e.ptr)
  /\ live' = live \ {e}
  /\ UNCHANGED <<hugeCalls, poolVars, returned, carved, raceVars>>
LiveNext == LiveAlloc \/ LiveFree
LiveSpec == Init /\ [][LiveNext]_vars

\* A caller that passes to myFree only NULL, a pointer outside
\* [heapStart + header, heapEnd), or a pointer myAlloc returned earlier
\* (freed already or not).
OutOfBounds(p) == p # NULL /\ (p < heapStart + HeaderSize \/ p >= heapEnd)
ReturnedAlloc == \E size \in Sizes :
  /\ Budget(size) /\ myAlloc(size)
  /\ returned' = IF ret' # NULL /\ status' = "running"
                 THEN returned \cup {ret'} ELSE returned
  /\ carved' = IF path' = "carve" THEN carved \cup {Wrap(ret' - HeaderSize + TwoW)}
               ELSE carved
  /\ UNCHANGED <<poolVars, live, raceVars>>
ReturnedFree == \E p \in returned \cup {q \in Pointers : q = NULL \/ OutOfBounds(q)} :
  /\ myFree(p)
  /\ UNCHANGED <<hugeCalls, poolVars, callerVars, raceVars>>
ReturnedNext == ReturnedAlloc \/ ReturnedFree
ReturnedSpec == Init /\ [][ReturnedNext]_vars
ExhaustSpec == Init /\ [][AllocForever]_vars /\ WF_vars(AllocForever)

TypeOK ==
  /\ heapStart \in Addresses /\ heapEnd \in Addresses /\ heapMax \in Addresses
  /\ mem \in [WordIdx -> Addresses]
  /\ status \in {"running", "crashed", "hung"}

\* ----------------------------------------- two threads inside myAlloc
\* Two threads call myAlloc once each on an arena that a single thread has
\* set up before.  A step of a thread is one read or one write of a header
\* or of heapEnd; the steps of the two threads interleave freely, and each
\* read sees the latest write.
RaceSizes == { n \in Sizes : 0 < n /\ n <= MaxRequest /\ n % ALIGNMENT = 0 }
Running(t) == thr[t].pc \notin {"idle", "done"}
Others == <<heapStart, heapMax, call, ret, path, mmapCalls, initRuns, hugeCalls,
            poolVars, callerVars>>

\* The single-threaded set-up: allocate, or free the pointer just returned.
Setup ==
  /\ \A t \in Threads : thr[t].pc = "idle"
  /\ \/ \E size \in RaceSizes : myAlloc(size)
     \/ ret # NULL /\ myFree(ret)
  /\ UNCHANGED <<hugeCalls, poolVars, callerVars, raceVars>>

\* lines 115-139: the call begins on the mapped arena; cursor = heapStart
Enter(t) ==
  /\ thr[t].pc = "idle" /\ status = "running" /\ Mapped(heapStart)
  /\ \E size \in RaceSizes :
       thr' = [thr EXCEPT ![t] = [Idle EXCEPT !.pc = "test", !.size = size,
                                              !.p = heapStart]]
  /\ overlapped' = (overlapped \/ \E u \in Threads \ {t} : Running(u))
  /\ last_error' = ERR_NONE
  /\ UNCHANGED <<Others, heapEnd, mem, status>>

\* line 140: read heapEnd for the loop test
LoopTest(t) ==
  /\ thr[t].pc = "test" /\ status = "running"
  /\ thr' = [thr EXCEPT ![t].pc = IF thr[t].p < heapEnd THEN "read" ELSE "check"]
  /\ UNCHANGED <<Others, heapEnd, mem, status, last_error, overlapped>>

\* lines 141-144 and 151: read the header under the cursor; go on to mark it
\* or move the cursor
ReadHeader(t) ==
  /\ thr[t].pc = "read" /\ status = "running"
  /\ \E ok \in AccessOutcomes({thr[t].p}, heapStart) :
       IF ~ok
       THEN /\ status' = "crashed"
            /\ UNCHANGED thr
       ELSE /\ \E w \in ReadWord(mem, thr[t].p, heapStart) :
                 thr' = [thr EXCEPT ![t] =
                           IF Fits(w, ALIGN(thr[t].size))
                           THEN [@ EXCEPT !.pc = "mark", !.w = w]
                           ELSE [@ EXCEPT !.pc = "test", !.p = NextBlock(thr[t].p, w)]]
            /\ UNCHANGED status
  /\ UNCHANGED <<Others, heapEnd, mem, last_error, overlapped>>

\* lines 145-148: write the header back with its free flag cleared and
\* return the payload
MarkHeader(t) ==
  /\ thr[t].pc = "mark" /\ status = "running"
  /\ mem' = WriteWord(mem, thr[t].p, heapStart, MARK_ALLOCATED(thr[t].w))
  /\ thr' = [thr EXCEPT ![t] = [Idle EXCEPT !.pc = "done", !.path = "reuse",
                                            !.ret = Payload(thr[t].p)]]
  /\ UNCHANGED <<Others, heapEnd, status, last_error, overlapped>>

\* lines 155-157: read heapEnd and heapMax for the out-of-memory test
SpaceTest(t) ==
  /\ thr[t].pc = "check" /\ status = "running"
  /\ \E full \in OutOfSpace(heapEnd, ALIGN(thr[t].size), heapMax) :
       IF full
       THEN /\ last_error' = alloc_error(ERR_OUT_OF_MEM)
            /\ thr' = [thr EXCEPT ![t] = [Idle EXCEPT !.pc = "done", !.path = "oom"]]
       ELSE /\ thr' = [thr EXCEPT ![t].pc = "end"]
            /\ UNCHANGED last_error
  /\ UNCHANGED <<Others, heapEnd, mem, status, overlapped>>

\* line 158: h = heapEnd
ReadEnd(t) ==
  /\ thr[t].pc = "end" /\ status = "running"
  /\ thr' = [thr EXCEPT ![t].pc = "header", ![t].h = heapEnd]
  /\ UNCHANGED <<Others, heapEnd, mem, status, last_error, overlapped>>

\* lines 159-161: write the new header at h
WriteHeader(t) ==
  /\ thr[t].pc = "header" /\ status = "running"
  /\ \E ok \in AccessOutcomes({thr[t].h}, heapStart) :
       IF ~ok
       THEN /\ status' = "crashed"
            /\ UNCHANGED <<thr, mem>>
       ELSE /\ \E old \in ReadWord(mem, thr[t].h, heapStart) :
                 mem' = WriteWord(mem, thr[t].h, heapStart,
                                  CarvedHeader(old, ALIGN(thr[t].size)))
            /\ thr' = [thr EXCEPT ![t].pc = "advance"]
            /\ UNCHANGED status
  /\ UNCHANGED <<Others, heapEnd, last_error, overlapped>>

\* lines 166-169: write heapEnd and return the payload
WriteEnd(t) ==
  /\ thr[t].pc = "advance" /\ status = "running"
  /\ heapEnd' = CarvedEnd(thr[t].h, ALIGN(thr[t].size))
  /\ thr' = [thr EXCEPT ![t] = [Idle EXCEPT !.pc = "done", !.path = "carve",
                                            !.ret = Payload(thr[t].h)]]
  /\ UNCHANGED <<Others, mem, status, last_error, overlapped>>

RaceNext ==
  \/ Setup
  \/ \E t \in Threads : Enter(t)
  \/ \E t \in Threads : LoopTest(t)
  \/ \E t \in Threads : ReadHeader(t)
  \/ \E t \in Threads : MarkHeader(t)
  \/ \E t \in Threads : SpaceTest(t)
  \/ \E t \in Threads : ReadEnd(t)
  \/ \E t \in Threads : WriteHeader(t)
  \/ \E t \in Threads : WriteEnd(t)
RaceSpec == Init /\ [][RaceNext]_vars

\* ------------------------------------------------ fixed_block.c: the pool
\* line 26: the pointer returned for slot i
BlockPointer(i) == memory + i + BLOCK_SIZE
\* line 37: the slot computed from a pointer
BlockIndex(p) == (p - memory) \div BLOCK_SIZE

\* lines 22-31: mark the first free slot used and return its pointer
fixed_myAlloc ==
  LET free == { i \in Slots : free_list[i] = 0 } IN
  IF free # {}
  THEN LET i == CHOOSE j \in free : \A k \in free : j <= k IN
       /\ free_list' = [free_list EXCEPT ![i] = 1]
       /\ poolRet' = BlockPointer(i)
       /\ poolLive' = poolLive \cup {[ptr |-> BlockPointer(i), slot |-> i]}
  ELSE /\ poolRet' = NULL
       /\ UNCHANGED <<free_list, poolLive>>

\* lines 33-39.  A slot number outside free_list would be a store outside
\* the array; free_list itself is then left as it was.
fixed_myFree(p) ==
  /\ free_list' = IF BlockIndex(p) \in Slots
                  THEN [free_list EXCEPT ![BlockIndex(p)] = 0]
                  ELSE free_list
  /\ poolLive' = { e \in poolLive : e.ptr # p }
  /\ poolRet' = NULL

\* The pool's caller: allocates, and frees pointers it holds.
PoolAlloc == fixed_myAlloc /\ UNCHANGED <<heapVars, callerVars, raceVars>>
PoolFree == \E p \in { e.ptr : e \in poolLive } :
              fixed_myFree(p) /\ UNCHANGED <<heapVars, callerVars, raceVars>>
PoolNext == PoolAlloc \/ PoolFree
PoolSpec == Init /\ [][PoolNext]_vars

\* ------------------------------------------------------- the block chain
\* The header addresses met by walking from heapStart in steps of
\* header + payload size while below heapEnd (inside the mapping).
RECURSIVE Chain(_, _, _, _, _)
Chain(m, hs, p, end, seen) ==
  IF ~(p < end) \/ p \in seen \/ ~InArena(p, hs) THEN seen
  ELSE Chain(m, hs, NextBlock(p, m[Idx(p)]), end, seen \cup {p})

Blocks == IF Mapped(heapStart)
          THEN Chain(mem, heapStart, heapStart, heapEnd, {}) ELSE {}
Header(b) == mem[Idx(b)]
\* the free blocks whose payload holds a request of n bytes
FreeFit(n) == { b \in Blocks : IS_FREE(Header(b)) = 1 /\ GET_SIZE(Header(b)) >= ALIGN(n) }
Lowest(S) == CHOOSE b \in S : \A c \in S : b <= c
IsAlloc(c) == c.op = "myAlloc"
IsFree(c) == c.op = "myFree"

\* ----------------------------------------------------------------- claims

\* C1: whenever myAlloc(n), n > 0, is called while some block of the chain is
\* free with payload size >= ALIGN(n), the call returns the payload pointer
\* of the lowest-addressed such block, marks it allocated and leaves heapEnd
\* where it was.
C1_FirstFitReuse ==
  [][ (IsAlloc(call') /\ call'.size > 0 /\ FreeFit(call'.size) # {})
      => LET b == Lowest(FreeFit(call'.size)) IN
         /\ path' = "reuse"
         /\ ret' = b + HeaderSize
         /\ IS_FREE(mem'[Idx(b)]) = 0
         /\ heapEnd' = heapEnd ]_vars

\* C2: every successful myAlloc(n), n > 0, returns a pointer whose offset from
\* heapStart is a multiple of ALIGNMENT, to a block whose stored payload size
\* is >= n and a multiple of ALIGNMENT.
C2_AlignmentInvariant ==
  (IsAlloc(call) /\ call.size > 0 /\ path \in {"reuse", "carve"}
     /\ InArena(ret - HeaderSize, heapStart))
  => /\ (ret - heapStart) % ALIGNMENT = 0
     /\ GET_SIZE(Header(ret - HeaderSize)) >= call.size
     /\ GET_SIZE(Header(ret - HeaderSize)) % ALIGNMENT = 0

\* C3: once the arena is mapped, heapStart <= heapEnd <= heapMax in every
\* state, and heapEnd never decreases from one state to the next.
C3_ArenaBounds ==
  /\ [](Mapped(heapStart) => (heapStart <= heapEnd /\ heapEnd <= heapMax))
  /\ [][Mapped(heapStart) => heapEnd' >= heapEnd]_vars

\* C4: a run that keeps calling myAlloc(n), n > 0, and never frees eventually
\* sees a call return NULL with last_error = ERR_OUT_OF_MEM (or the process
\* stops in a fault or an endless scan).
C4_Exhaustion ==
  <>( \/ IsAlloc(call) /\ ret = NULL /\ last_error = ERR_OUT_OF_MEM
      \/ status # "running" )

\* C5: when the mmap request of a myAlloc call fails, the arena is left
\* uninitialised (heapStart stays NULL), and the next myAlloc(n), n > 0,
\* issues the mapping request again.
C5_MmapFailureRetryable ==
  /\ [](path = "mmapfail" => heapStart = NULL)
  /\ [][(path = "mmapfail" /\ IsAlloc(call') /\ call'.size > 0)
        => mmapCalls' = mmapCalls + 1]_vars

\* C6 as stated: myFree(NULL) leaves heapStart, heapEnd, heapMax, every
\* header and last_error unchanged.
C6_NullFreeKeepsLastError ==
  [][(IsFree(call') /\ myFree(NULL))
     => UNCHANGED <<heapStart, heapEnd, heapMax, mem, last_error>>]_vars

\* C6 amended: myFree(NULL) returns normally, leaves heapStart, heapEnd,
\* heapMax and every header unchanged, and sets last_error to ERR_NONE.
C6_NullFreeNoOp ==
  [][(IsFree(call') /\ myFree(NULL))
     => /\ UNCHANGED <<heapStart, heapEnd, heapMax, mem, mmapCalls, initRuns>>
        /\ status' = "running"
        /\ path' = "null"
        /\ last_error' = ERR_NONE]_vars

\* myFree(NULL) has returned on a mapped arena that holds a free block.
C6_Witness ==
  /\ IsFree(call) /\ path = "null" /\ last_error = ERR_NONE
  /\ \E b \in Blocks : IS_FREE(Header(b)) = 1

\* C7: myAlloc(0) returns NULL with last_error = ERR_OUT_OF_MEM, issues no
\* mapping request and changes neither heapStart, heapEnd, heapMax nor any
\* header.
C7_ZeroSizeRejected ==
  [][(IsAlloc(call') /\ call'.size = 0)
     => /\ ret' = NULL
        /\ last_error' = ERR_OUT_OF_MEM
        /\ status' = "running"
        /\ UNCHANGED <<heapStart, heapEnd, heapMax, mem, mmapCalls, initRuns>>]_vars

\* myAlloc(0) has been rejected on a mapped arena that holds a free block.
C7_Witness ==
  /\ IsAlloc(call) /\ call.size = 0 /\ path = "zero"
  /\ ret = NULL /\ last_error = ERR_OUT_OF_MEM
  /\ \E b \in Blocks : IS_FREE(Header(b)) = 1

\* C8: myFree(p) with p non-null and p < heapStart + header size or
\* p >= heapEnd sets last_error = ERR_INVALID_FREE, issues no mapping request
\* and changes neither heapStart, heapEnd, heapMax nor any header.
C8_BoundsRejection ==
  [][\A p \in Pointers \ {NULL} :
       ((p < heapStart + HeaderSize \/ p >= heapEnd) /\ IsFree(call') /\ myFree(p))
       => /\ last_error' = ERR_INVALID_FREE
          /\ path' = "invalid"
          /\ status' = "running"
          /\ UNCHANGED <<heapStart, heapEnd, heapMax, mem, mmapCalls, initRuns>>]_vars

\* A myFree has been rejected on a mapped arena whose last block is
\* allocated.
C8_Witness ==
  /\ IsFree(call) /\ path = "invalid"
  /\ last_error = ERR_INVALID_FREE
  /\ Mapped(heapStart) /\ heapStart < heapEnd /\ heapEnd <= heapMax
  /\ \E b \in Blocks : /\ IS_FREE(Header(b)) = 0
                        /\ b + HeaderSize + GET_SIZE(Header(b)) = heapEnd

\* Blocks b1 and b2 are address-adjacent and both free.
AdjacentFree(b1, b2) ==
  /\ b2 = b1 + HeaderSize + GET_SIZE(Header(b1))
  /\ IS_FREE(Header(b1)) = 1 /\ IS_FREE(Header(b2)) = 1
SpanEnd(b2) == b2 + HeaderSize + GET_SIZE(Header(b2))

\* C9: when two address-adjacent free blocks of payload sizes S1 and S2 exist
\* and no free block holds ALIGN(S1 + S2) bytes, myAlloc(S1 + S2) either
\* fails with ERR_OUT_OF_MEM or carves a new block at heapEnd; the pointer it
\* returns is not inside the span of the two blocks, and both keep their
\* headers.
C9_NoCoalescing ==
  [][(IsAlloc(call') /\ call'.size > 0 /\ FreeFit(call'.size) = {}) =>
     \A b1, b2 \in Blocks :
       (/\ AdjacentFree(b1, b2)
        /\ call'.size = GET_SIZE(Header(b1)) + GET_SIZE(Header(b2)))
       => /\ \/ path' = "oom" /\ ret' = NULL /\ last_error' = ERR_OUT_OF_MEM
             \/ path' = "carve" /\ ret' = heapEnd + HeaderSize
          /\ ~(b1 <= ret' /\ ret' < SpanEnd(b2))
          /\ mem'[Idx(b1)] = mem[Idx(b1)]
          /\ mem'[Idx(b2)] = mem[Idx(b2)]]_vars

C11_LastErrorMirrorsCall ==
  [][/\ (IsAlloc(call') /\ status' = "running")
        => (last_error' = ERR_NONE <=> ret' # NULL)
     /\ \A p \in Pointers :
          (/\ IsFree(call') /\ status' = "running"
           /\ last_error' # (IF OutOfBounds(p) THEN ERR_INVALID_FREE ELSE ERR_NONE))
          => ~myFree(p)]_vars

\* A myAlloc has failed for lack of space on a mapped arena, in a run with no
\* request above MaxRequest.
C11_Witness ==
  /\ IsAlloc(call) /\ path = "oom" /\ ret = NULL
  /\ last_error = ERR_OUT_OF_MEM /\ hugeCalls = 0
  /\ Mapped(heapStart)

\* C12: for every pool pointer p returned by myAlloc and not yet freed,
\* myFree(p) marks free exactly the free_list slot that myAlloc marked used
\* when it returned p, and changes no other slot.
C12_FreeReleasesAllocatedSlot ==
  [][\A e \in poolLive :
       fixed_myFree(e.ptr) => free_list' = [free_list EXCEPT ![e.slot] = 0]]_vars

\* C13: the pointers of any two live pool allocations are at least BLOCK_SIZE
\* bytes apart, and each returned BLOCK_SIZE-byte range lies inside memory[].
C13_PoolBlocksDisjoint ==
  \A e, f \in poolLive :
    /\ e.ptr # f.ptr => (e.ptr - f.ptr >= BLOCK_SIZE \/ f.ptr - e.ptr >= BLOCK_SIZE)
    /\ memory <= e.ptr
    /\ e.ptr + BLOCK_SIZE <= memory + BLOCK_SIZE * BLOCK_COUNT

\* The bytes [e.ptr, e.ptr + e.n) of a live allocation meet the header at b.
CoversHeader(e, b) == b < e.ptr + e.n /\ e.ptr < b + HeaderSize
\* Two live allocations share a byte.
Overlap(e, f) == e.ptr < f.ptr + f.n /\ f.ptr < e.ptr + e.n

\* C14: for a caller that frees only live pointers, the requested byte ranges
\* of the live allocations are pairwise disjoint, contain no block header and
\* lie inside [heapStart, heapEnd); and myAlloc never returns a pointer that
\* is live.
C14_LiveAllocationsDisjoint ==
  /\ [](\A e \in live :
          /\ heapStart <= e.ptr /\ e.ptr + e.n <= heapEnd
          /\ \A b \in Blocks : ~CoversHeader(e, b)
          /\ \A f \in live \ {e} : ~Overlap(e, f))
  /\ [][(IsAlloc(call') /\ ret' # NULL) => \A e \in live : e.ptr # ret']_vars

\* Where the walk from heapStart over the chain's headers stops.
WalkEnds == { b + HeaderSize + GET_SIZE(Header(b)) : b \in Blocks }

\* C15: for a caller that frees only NULL, out-of-bounds pointers and
\* pointers myAlloc returned, in every state with a mapped arena the walk
\* from heapStart in steps of header + payload size lands exactly on heapEnd,
\* every header it visits was written by a carve, and every payload size is
\* a multiple of ALIGNMENT.
C15_ChainWellFormed ==
  Mapped(heapStart) =>
    /\ IF Blocks = {} THEN heapEnd = heapStart
       ELSE heapEnd \in WalkEnds /\ \A x \in WalkEnds : x <= heapEnd
    /\ \A b \in Blocks : /\ b \in carved
                         /\ GET_SIZE(Header(b)) % ALIGNMENT = 0

\* The step changes at most the free flag of the header at b.
OnlyFlagChanged(b) ==
  /\ GET_SIZE(mem'[Idx(b)]) = GET_SIZE(mem[Idx(b)])
  /\ \A i \in WordIdx \ {Idx(b)} : mem'[i] = mem[i]

\* C16: on a mapped arena, no step changes the payload size of a carved
\* block; a myAlloc that reuses a block changes only that block's free flag
\* and leaves heapEnd alone; a myFree of a pointer myAlloc returned changes
\* only the free flag of the block before it; and only a carve adds a header
\* to the chain or advances heapEnd.
C16_BlockSizesImmutable ==
  [][Mapped(heapStart) =>
     /\ \A b \in carved :
          InArena(b, heapStart) => GET_SIZE(mem'[Idx(b)]) = GET_SIZE(mem[Idx(b)])
     /\ (IsAlloc(call') /\ path' = "reuse")
        => /\ heapEnd' = heapEnd
           /\ \E b \in Blocks : OnlyFlagChanged(b)
     /\ \A p \in returned :
          (IsFree(call') /\ myFree(p))
          => /\ heapEnd' = heapEnd
             /\ InArena(p - HeaderSize, heapStart) => OnlyFlagChanged(p - HeaderSize)
     /\ (heapEnd' > heapEnd \/ ~(Blocks' \subseteq Blocks)) => path' = "carve"]_vars

\* C17: myFree(p) with heapStart + header size <= p < heapEnd is accepted
\* whatever p is, in particular when p is not a payload pointer that myAlloc
\* returned: the call returns with last_error = ERR_NONE and has set the
\* low-order bit of the word at p - header size, changing nothing else.
C17_UnvalidatedFreeTarget ==
  [][\A p \in Pointers \ {NULL} :
       (/\ heapStart + HeaderSize <= p /\ p < heapEnd
        /\ IsFree(call') /\ myFree(p))
       => /\ status' = "running"
          /\ path' = "freed"
          /\ last_error' = ERR_NONE
          /\ InArena(p - HeaderSize, heapStart)
          /\ IS_FREE(mem'[Idx(p - HeaderSize)]) = 1
          /\ OnlyFlagChanged(p - HeaderSize)
          /\ UNCHANGED <<heapStart, heapEnd, heapMax>>]_vars

\* A myFree has been accepted and a word below heapEnd that is not a header
\* of the chain (it lies inside a payload) has its low-order bit set, in a
\* run with no request above MaxRequest.
C17_Witness ==
  /\ IsFree(call) /\ path = "freed" /\ last_error = ERR_NONE /\ hugeCalls = 0
  /\ \E a \in Addresses :
       /\ InArena(a, heapStart) /\ a < heapEnd /\ (a - heapStart) % HeaderSize = 0
       /\ a \notin Blocks
       /\ IS_FREE(mem[Idx(a)]) = 1

\* The headers at which a finished scan computed the next cursor (line 151).
Stepped(s) == IF s.kind = "found" THEN s.seen \ {s.p} ELSE s.seen

\* C18: every myAlloc call on a mapped arena terminates; its scan moves the
\* cursor strictly forward at every step, reads no header twice and none at
\* an address >= heapEnd, and ends either at a block it reuses or with the
\* cursor on heapEnd.
C18_ScanTerminates ==
  /\ [](status # "hung")
  /\ [][(IsAlloc(call') /\ call'.size > 0 /\ Mapped(heapStart)) =>
        \A s \in Scan(mem, heapStart, heapStart, heapEnd, ALIGN(call'.size), {}) :
          /\ s.kind # "hang"
          /\ \A a \in s.seen : a < heapEnd
          /\ \A a \in Stepped(s) :
               \A w \in ReadWord(mem, a, heapStart) : NextBlock(a, w) > a
          /\ s.kind = "none" => s.p = heapEnd]_vars

\* Both threads' calls have returned, with the same non-NULL pointer.
BothReturnedSame ==
  /\ \A t \in Threads : thr[t].pc = "done"
  /\ thr[1].ret = thr[2].ret /\ thr[1].ret # NULL

\* C19: two myAlloc calls whose reads and writes of headers and heapEnd
\* interleave can both return the same payload pointer (C19_Witness reaches
\* such a state); they do so only when the calls ran at the same time, and
\* then both reused the same header or both carved at the same heapEnd.
C19_SamePointerOnlyByRace ==
  BothReturnedSame
  => /\ overlapped
     /\ thr[1].path = thr[2].path
     /\ thr[1].path \in {"reuse", "carve"}

\* Both calls have returned the same pointer after carving at the same
\* heapEnd.
C19_Witness ==
  /\ BothReturnedSame /\ status = "running"
  /\ thr[1].path = "carve" /\ thr[2].path = "carve"

\* Both calls have returned the same pointer after reusing the same block.
C19_WitnessReuse ==
  /\ BothReturnedSame /\ status = "running"
  /\ thr[1].path = "reuse" /\ thr[2].path = "reuse"
====
